---- MODULE Spec2Model ----
(***************************************************************************)
(* Model of the geo-types-3d conversion layer:                             *)
(*   conversion/geojson/from_geo_types.rs  (export: entity -> interchange) *)
(*   conversion/geojson/to_geo_types.rs    (import: interchange -> entity) *)
(*   geometry/mod.rs                       (the Geometry sum type)         *)
(*                                                                         *)
(* Every conversion is a pure function, modelled as an operator that       *)
(* returns one of three outcomes: Ok(v) (a value is returned), Err(e) (an  *)
(* error value is returned) or Panic (the call aborts: panic!, unwrap on   *)
(* an Err, slice index out of bounds).  The state machine performs one     *)
(* conversion call per step on an input drawn from bounded sets.           *)
(***************************************************************************)
EXTENDS Integers, Sequences, FiniteSets, TLC

VARIABLES op, input, target, mid, result

vars == <<op, input, target, mid, result>>

(***************************************************************************)
(* Bounds                                                                  *)
(***************************************************************************)
MaxNum == 2         \* scalars are 0..MaxNum
MaxLen == 2         \* coordinates in a line string / positions in a line
MaxRings == 3       \* rings in an interchange polygon (1 exterior + interiors)
MaxMembers == 2     \* members of a Multi*, a collection, a feature collection
MaxPosLen == 3      \* longest interchange position (shortest is 2)

Num == 0..MaxNum

SeqsUpTo(S, n) == UNION {[1..k -> S] : k \in 0..n}

(***************************************************************************)
(* Outcomes of a call                                                      *)
(***************************************************************************)
Ok(v) == [tag |-> "Ok", val |-> v]

Err(e) == [tag |-> "Err", err |-> e]

Panic == [tag |-> "Panic"]

NoResult == [tag |-> "None"]

\* Index of the first element of a sequence of outcomes that is not Ok, or 0.
FirstFailure(rs) ==
    IF \E i \in DOMAIN rs : rs[i].tag # "Ok"
    THEN CHOOSE i \in DOMAIN rs :
            /\ rs[i].tag # "Ok"
            /\ \A j \in 1..(i - 1) : rs[j].tag = "Ok"
    ELSE 0

\* iter().map(f).collect(): elements are converted in order; the first
\* element whose conversion does not return Ok ends the whole collect with
\* that outcome (an Err for collect::<Result<_>>, an unwinding panic else).
Collect(rs) ==
    IF FirstFailure(rs) = 0
    THEN Ok([i \in DOMAIN rs |-> rs[i].val])
    ELSE rs[FirstFailure(rs)]

\* Result::unwrap
Unwrap(r) == IF r.tag = "Err" THEN Panic ELSE r

(***************************************************************************)
(* Entities (geometry/mod.rs, geometry/coord_z.rs, geometry/point_z.rs)    *)
(***************************************************************************)
CoordZ(x, y, z) == [x |-> x, y |-> y, z |-> z]

Coord(x, y) == [x |-> x, y |-> y]

Geom(k, d) == [kind |-> k, data |-> d]

\* The sixteen variants of enum Geometry.
CurrentKinds == {"PointZ", "LineZ", "LineStringZ", "PolygonZ", "MultiPointZ",
                 "MultiLineStringZ", "MultiPolygonZ", "GeometryCollection"}

LegacyKinds == {"Point", "Line", "LineString", "Polygon", "MultiPoint",
                "MultiLineString", "MultiPolygon", "Rect"}

GeometryKinds == CurrentKinds \cup LegacyKinds

(***************************************************************************)
(* Interchange values (geojson::Value); geojson::Geometry wraps a Value    *)
(* with an optional bbox and foreign members, which no conversion reads.   *)
(***************************************************************************)
\* coordinates holds the positions of the value; for a GeometryCollection it
\* holds the member geometries.
Value(t, d) == [type |-> t, coordinates |-> d]

ValueKinds == {"Point", "MultiPoint", "LineString", "MultiLineString",
               "Polygon", "MultiPolygon", "GeometryCollection"}

\* geojson::Value::type_name
type_name(v) == v.type

(***************************************************************************)
(* Export: conversion/geojson/from_geo_types.rs                            *)
(***************************************************************************)
\* T::to_f64: a CoordFloat scalar widens to f64 without changing its value.
to_f64(n) == n

create_point_type(point) == <<to_f64(point.x), to_f64(point.y)>>

create_line_string_type(line_string) ==
    [i \in DOMAIN line_string |-> create_point_type(line_string[i])]

create_from_line_type(line) ==
    <<create_point_type(line.start), create_point_type(line.end)>>

create_multi_line_string_type(multi_line_string) ==
    [i \in DOMAIN multi_line_string |->
        create_line_string_type(multi_line_string[i])]

create_polygon_type(polygon) ==
    <<[i \in DOMAIN polygon.exterior |-> create_point_type(polygon.exterior[i])]>>
    \o [i \in DOMAIN polygon.interiors |->
            create_line_string_type(polygon.interiors[i])]

create_multi_polygon_type(multi_polygon) ==
    [i \in DOMAIN multi_polygon |-> create_polygon_type(multi_polygon[i])]

\* The two-axis variants and Rect are exported by the geojson crate's own
\* conversions for geo_types entities, which write [x, y] positions.
legacy_point_type(c) == <<to_f64(c.x), to_f64(c.y)>>

legacy_line_string_type(cs) == [i \in DOMAIN cs |-> legacy_point_type(cs[i])]

legacy_polygon_type(polygon) ==
    <<legacy_line_string_type(polygon.exterior)>>
    \o [i \in DOMAIN polygon.interiors |->
            legacy_line_string_type(polygon.interiors[i])]

legacy_rect_type(rect) ==
    <<legacy_line_string_type(
        <<Coord(rect.max.x, rect.min.y), Coord(rect.max.x, rect.max.y),
          Coord(rect.min.x, rect.max.y), Coord(rect.min.x, rect.min.y),
          Coord(rect.max.x, rect.min.y)>>)>>

\* impl From<&Geometry<T>> for geojson::Value: the match names the two-axis
\* variants, Rect, MultiPointZ and GeometryCollection; every other variant
\* reaches the panic! arm.
RECURSIVE ValueFromGeometry(_)
ValueFromGeometry(g) ==
    CASE g.kind = "Point" -> Ok(Value("Point", legacy_point_type(g.data)))
      [] g.kind = "MultiPointZ" ->
            Ok(Value("MultiPoint",
                     [i \in DOMAIN g.data |-> create_point_type(g.data[i])]))
      [] g.kind = "LineString" ->
            Ok(Value("LineString", legacy_line_string_type(g.data)))
      [] g.kind = "Line" ->
            Ok(Value("LineString",
                     <<legacy_point_type(g.data.start),
                       legacy_point_type(g.data.end)>>))
      [] g.kind = "Rect" -> Ok(Value("Polygon", legacy_rect_type(g.data)))
      [] g.kind = "GeometryCollection" ->
            LET rs == Collect([i \in DOMAIN g.data |-> ValueFromGeometry(g.data[i])])
            IN  IF rs.tag = "Ok"
                THEN Ok(Value("GeometryCollection", rs.val))
                ELSE rs
      [] g.kind = "MultiLineString" ->
            Ok(Value("MultiLineString",
                     [i \in DOMAIN g.data |-> legacy_line_string_type(g.data[i])]))
      [] g.kind = "Polygon" -> Ok(Value("Polygon", legacy_polygon_type(g.data)))
      [] g.kind = "MultiPolygon" ->
            Ok(Value("MultiPolygon",
                     [i \in DOMAIN g.data |-> legacy_polygon_type(g.data[i])]))
      [] OTHER -> Panic

\* impl From<&K<T>> for geojson::Value, one per concrete three-axis type K.
ValueFromConcrete(k, d) ==
    CASE k = "PointZ" -> Ok(Value("Point", create_point_type(d)))
      [] k = "MultiPointZ" ->
            Ok(Value("MultiPoint", [i \in DOMAIN d |-> create_point_type(d[i])]))
      [] k = "LineStringZ" -> Ok(Value("LineString", create_line_string_type(d)))
      [] k = "LineZ" -> Ok(Value("LineString", create_from_line_type(d)))
      [] k = "MultiLineStringZ" ->
            Ok(Value("MultiLineString", create_multi_line_string_type(d)))
      [] k = "PolygonZ" -> Ok(Value("Polygon", create_polygon_type(d)))
      [] k = "MultiPolygonZ" ->
            Ok(Value("MultiPolygon", create_multi_polygon_type(d)))
      [] k = "GeometryCollection" -> ValueFromGeometry(Geom("GeometryCollection", d))

(***************************************************************************)
(* Entity constructors used by the import converter.  PolygonZ::new        *)
(* (geometry/polygon.rs) closes every ring it is given, by                 *)
(* LineStringZ::close (geometry/line_string_z.rs); its contract is the one *)
(* the callers' tests state (wkt_macro.rs test::polygon: "an extra coord   *)
(* is added to close the linestring").                                     *)
(***************************************************************************)
is_closed(line_string) ==
    Len(line_string) = 0 \/ line_string[1] = line_string[Len(line_string)]

close(line_string) ==
    IF is_closed(line_string)
    THEN line_string
    ELSE Append(line_string, line_string[1])

PolygonZ_new(exterior, interiors) ==
    [exterior |-> close(exterior),
     interiors |-> [i \in DOMAIN interiors |-> close(interiors[i])]]

(***************************************************************************)
(* Import: conversion/geojson/to_geo_types.rs                              *)
(***************************************************************************)
\* T::from(f64).unwrap(): a float scalar is always produced.
from_f64(n) == n

\* A coordinate read with the second and third elements exchanged.
create_geo_coordinate_z_before_y(point_type) ==
    IF Len(point_type) < 3
    THEN Panic
    ELSE Ok(CoordZ(from_f64(point_type[1]), from_f64(point_type[3]),
                   from_f64(point_type[2])))

\* point_type[i] on a Vec<f64>: indexes 0, 1 and 2 are read; a position with
\* fewer than three elements aborts with an index-out-of-bounds panic.
create_geo_coordinate(point_type) ==
    IF Len(point_type) < 3
    THEN Panic
    ELSE Ok(CoordZ(from_f64(point_type[1]), from_f64(point_type[2]),
                   from_f64(point_type[3])))

create_geo_point(point_type) ==
    IF Len(point_type) < 3
    THEN Panic
    ELSE Ok(CoordZ(from_f64(point_type[1]), from_f64(point_type[2]),
                   from_f64(point_type[3])))

create_geo_line_string(line_type) ==
    Collect([i \in DOMAIN line_type |-> create_geo_coordinate(line_type[i])])

create_geo_multi_line_string(multi_line_type) ==
    Collect([i \in DOMAIN multi_line_type |->
                create_geo_line_string(multi_line_type[i])])

\* Mutant of create_geo_polygon: the interiors are sliced from index 0, so
\* the exterior ring is repeated as the first interior.
create_geo_polygon_slice_from_0(polygon_type) ==
    LET exterior == IF Len(polygon_type) = 0
                    THEN create_geo_line_string(<<>>)
                    ELSE create_geo_line_string(polygon_type[1])
        interiors == IF Len(polygon_type) < 2
                     THEN Ok(<<>>)
                     ELSE Collect([i \in 1..Len(polygon_type) |->
                                     create_geo_line_string(polygon_type[i])])
    IN  IF exterior.tag # "Ok" THEN exterior
        ELSE IF interiors.tag # "Ok" THEN interiors
        ELSE Ok(PolygonZ_new(exterior.val, interiors.val))

create_geo_polygon(polygon_type) ==
    LET exterior == IF Len(polygon_type) = 0
                    THEN create_geo_line_string(<<>>)
                    ELSE create_geo_line_string(polygon_type[1])
        interiors == IF Len(polygon_type) < 2
                     THEN Ok(<<>>)
                     ELSE Collect([i \in 1..(Len(polygon_type) - 1) |->
                                     create_geo_line_string(polygon_type[i + 1])])
    IN  IF exterior.tag # "Ok" THEN exterior
        ELSE IF interiors.tag # "Ok" THEN interiors
        ELSE Ok(PolygonZ_new(exterior.val, interiors.val))

create_geo_multi_polygon(multi_polygon_type) ==
    Collect([i \in DOMAIN multi_polygon_type |->
                create_geo_polygon(multi_polygon_type[i])])

create_geo_multi_point(multi_point_type) ==
    Collect([i \in DOMAIN multi_point_type |->
                create_geo_point(multi_point_type[i])])

InvalidGeometryConversion(expected, found) ==
    [kind |-> "InvalidGeometryConversion",
     expected_type |-> expected, found_type |-> found]

FeatureHasNoGeometry(feature) ==
    [kind |-> "FeatureHasNoGeometry", feature |-> feature]

mismatch_geom_err(expected_type, found) ==
    InvalidGeometryConversion(expected_type, type_name(found))

\* Ok(f(x)) around a call that may abort.
Wrapped(k, r) == IF r.tag = "Ok" THEN Ok(Geom(k, r.val)) ELSE r

\* An import as Geometry that knows the six kinds of coordinates only and
\* reports a collection value as a mismatch.
GeometryTryFromValue_no_collection(value) ==
    CASE value.type = "Point" -> Wrapped("PointZ", create_geo_point(value.coordinates))
      [] value.type = "MultiPoint" ->
            Wrapped("MultiPointZ", create_geo_multi_point(value.coordinates))
      [] value.type = "LineString" ->
            Wrapped("LineStringZ", create_geo_line_string(value.coordinates))
      [] value.type = "MultiLineString" ->
            Wrapped("MultiLineStringZ", create_geo_multi_line_string(value.coordinates))
      [] value.type = "Polygon" ->
            Wrapped("PolygonZ", create_geo_polygon(value.coordinates))
      [] value.type = "MultiPolygon" ->
            Wrapped("MultiPolygonZ", create_geo_multi_polygon(value.coordinates))
      [] value.type = "GeometryCollection" ->
            Err(mismatch_geom_err("Geometry", value))

\* impl TryFrom<&Value> for Geometry<T>
RECURSIVE GeometryTryFromValue(_)
GeometryTryFromValue(value) ==
    CASE value.type = "Point" -> Wrapped("PointZ", create_geo_point(value.coordinates))
      [] value.type = "MultiPoint" ->
            Wrapped("MultiPointZ", create_geo_multi_point(value.coordinates))
      [] value.type = "LineString" ->
            Wrapped("LineStringZ", create_geo_line_string(value.coordinates))
      [] value.type = "MultiLineString" ->
            Wrapped("MultiLineStringZ", create_geo_multi_line_string(value.coordinates))
      [] value.type = "Polygon" ->
            Wrapped("PolygonZ", create_geo_polygon(value.coordinates))
      [] value.type = "MultiPolygon" ->
            Wrapped("MultiPolygonZ", create_geo_multi_polygon(value.coordinates))
      [] value.type = "GeometryCollection" ->
            Wrapped("GeometryCollection",
                    Collect([i \in DOMAIN value.coordinates |->
                                GeometryTryFromValue(value.coordinates[i])]))

\* impl TryFrom<&Value> for GeometryCollection<T>: each member is converted
\* with try_into().unwrap().
GeometryCollectionTryFromValue(value) ==
    IF value.type = "GeometryCollection"
    THEN Collect([i \in DOMAIN value.coordinates |->
                    Unwrap(GeometryTryFromValue(value.coordinates[i]))])
    ELSE Err(mismatch_geom_err("GeometryCollection", value))

PointZTryFromValue(value) ==
    IF value.type = "Point"
    THEN create_geo_point(value.coordinates)
    ELSE Err(mismatch_geom_err("Point", value))

MultiPointZTryFromValue(value) ==
    IF value.type = "MultiPoint"
    THEN create_geo_multi_point(value.coordinates)
    ELSE Err(mismatch_geom_err("MultiPoint", value))

LineStringZTryFromValue(value) ==
    IF value.type = "LineString"
    THEN create_geo_line_string(value.coordinates)
    ELSE Err(mismatch_geom_err("LineString", value))

MultiLineStringZTryFromValue(value) ==
    IF value.type = "MultiLineString"
    THEN create_geo_multi_line_string(value.coordinates)
    ELSE Err(mismatch_geom_err("MultiLineStringZ", value))

PolygonZTryFromValue(value) ==
    IF value.type = "Polygon"
    THEN create_geo_polygon(value.coordinates)
    ELSE Err(mismatch_geom_err("Polygon", value))

MultiPolygonZTryFromValue(value) ==
    IF value.type = "MultiPolygon"
    THEN create_geo_multi_polygon(value.coordinates)
    ELSE Err(mismatch_geom_err("MultiPolygon", value))

\* The import targets: the seven concrete types and the Geometry sum type.
ConcreteTargets == {"PointZ", "LineStringZ", "PolygonZ", "MultiPointZ",
                    "MultiLineStringZ", "MultiPolygonZ", "GeometryCollection"}

Targets == ConcreteTargets \cup {"Geometry"}

\* TryFrom<&Value> for the target type k (try_from_owned_value! and
\* TryFrom<&geojson::Geometry> delegate to it on the wrapped value).
TryFromValue(k, value) ==
    CASE k = "PointZ" -> PointZTryFromValue(value)
      [] k = "MultiPointZ" -> MultiPointZTryFromValue(value)
      [] k = "LineStringZ" -> LineStringZTryFromValue(value)
      [] k = "MultiLineStringZ" -> MultiLineStringZTryFromValue(value)
      [] k = "PolygonZ" -> PolygonZTryFromValue(value)
      [] k = "MultiPolygonZ" -> MultiPolygonZTryFromValue(value)
      [] k = "GeometryCollection" -> GeometryCollectionTryFromValue(value)
      [] k = "Geometry" -> GeometryTryFromValue(value)

\* A feature carries an optional geometry: <<>> is None, <<v>> is Some(v).
Feature(geometry) == [geometry |-> geometry]

\* Mutant of TryFromFeature: a feature without geometry converts to the
\* empty entity instead of failing.
TryFromFeature_empty_on_none(k, val) ==
    IF Len(val.geometry) = 0
    THEN Ok(<<>>)
    ELSE TryFromValue(k, val.geometry[1])

\* impl TryFrom<geojson::Feature> for $kind<T>
TryFromFeature(k, val) ==
    IF Len(val.geometry) = 0
    THEN Err(FeatureHasNoGeometry(val))
    ELSE TryFromValue(k, val.geometry[1])

\* The three shapes of a GeoJson document.
GeoJsonGeometry(v) == [doc |-> "Geometry", body |-> v]

GeoJsonFeature(f) == [doc |-> "Feature", body |-> f]

GeoJsonFeatureCollection(fs) == [doc |-> "FeatureCollection", body |-> fs]

\* .filter_map(|feature| feature.geometry.as_ref())
RECURSIVE filter_map_geometry(_)
filter_map_geometry(features) ==
    IF Len(features) = 0 THEN <<>>
    ELSE features[1].geometry \o filter_map_geometry(Tail(features))

\* Mutant of GeometryCollectionTryFromGeoJson: a standalone feature without
\* geometry is an error, as it is for every other target.
GeometryCollectionTryFromGeoJson_strict(gj) ==
    CASE gj.doc = "FeatureCollection" ->
            LET geometries == filter_map_geometry(gj.body)
            IN  Collect([i \in DOMAIN geometries |->
                            GeometryTryFromValue(geometries[i])])
      [] gj.doc = "Feature" ->
            IF Len(gj.body.geometry) > 0
            THEN Collect(<<GeometryTryFromValue(gj.body.geometry[1])>>)
            ELSE Err(FeatureHasNoGeometry(gj.body))
      [] gj.doc = "Geometry" -> Collect(<<GeometryTryFromValue(gj.body)>>)

\* impl TryFrom<&GeoJson> for GeometryCollection<T>
GeometryCollectionTryFromGeoJson(gj) ==
    CASE gj.doc = "FeatureCollection" ->
            LET geometries == filter_map_geometry(gj.body)
            IN  Collect([i \in DOMAIN geometries |->
                            GeometryTryFromValue(geometries[i])])
      [] gj.doc = "Feature" ->
            IF Len(gj.body.geometry) > 0
            THEN Collect(<<GeometryTryFromValue(gj.body.geometry[1])>>)
            ELSE Ok(<<>>)
      [] gj.doc = "Geometry" -> Collect(<<GeometryTryFromValue(gj.body)>>)

\* TryFrom<FeatureCollection> for Geometry with every feature converted,
\* those without geometry included: such a feature ends the import with
\* FeatureHasNoGeometry instead of being passed over.
GeometryTryFromFeatureCollection_keep_all(features) ==
    Wrapped("GeometryCollection",
            Collect([i \in DOMAIN features |->
                        TryFromFeature("Geometry", features[i])]))

\* impl TryFrom<FeatureCollection> for Geometry<T>
GeometryTryFromFeatureCollection(features) ==
    Wrapped("GeometryCollection",
            GeometryCollectionTryFromGeoJson(GeoJsonFeatureCollection(features)))

\* impl TryFrom<GeoJson> for Geometry<T>
GeometryTryFromGeoJson(val) ==
    CASE val.doc = "Geometry" -> TryFromValue("Geometry", val.body)
      [] val.doc = "Feature" -> TryFromFeature("Geometry", val.body)
      [] val.doc = "FeatureCollection" -> GeometryTryFromFeatureCollection(val.body)

DocTargets == {"GeometryCollection", "Geometry"}

TryFromGeoJson(k, gj) ==
    IF k = "GeometryCollection"
    THEN GeometryCollectionTryFromGeoJson(gj)
    ELSE GeometryTryFromGeoJson(gj)

(***************************************************************************)
(* Geometry::from and the downcasts: geometry/mod.rs                       *)
(***************************************************************************)
\* A call the build has no rule or impl for: compile_error!, "no rules
\* expected this token", or an unsatisfied trait bound.  No value is made.
CompileError == [tag |-> "CompileError"]

\* The types with an impl From<K<T>> for Geometry<T>.
FromImpls == {"PointZ", "Line", "LineString", "Polygon", "MultiPoint",
              "MultiLineString", "MultiPolygon", "LineZ", "LineStringZ",
              "PolygonZ", "MultiPointZ", "MultiLineStringZ", "MultiPolygonZ",
              "GeometryCollection"}

\* impl From<K<T>> for Geometry<T>
GeometryFrom(k, x) == IF k \in FromImpls THEN Ok(Geom(k, x)) ELSE CompileError

\* The types try_from_geometry_impl! is invoked with.
TryFromImpls == {"PointZ", "Line", "LineStringZ", "PolygonZ", "MultiPointZ",
                 "MultiLineStringZ", "MultiPolygonZ"}

\* core::any::type_name::<K<T>>(), written as the name of K.
inner_type_name(geometry) ==
    CASE geometry.kind = "Point" -> "Point"
      [] geometry.kind = "PointZ" -> "PointZ"
      [] geometry.kind = "Line" -> "Line"
      [] geometry.kind = "LineString" -> "LineStringZ"
      [] geometry.kind = "Polygon" -> "PolygonZ"
      [] geometry.kind = "MultiPoint" -> "MultiPointZ"
      [] geometry.kind = "MultiLineString" -> "MultiLineStringZ"
      [] geometry.kind = "MultiPolygon" -> "MultiPolygonZ"
      [] geometry.kind = "GeometryCollection" -> "GeometryCollection"
      [] geometry.kind = "LineZ" -> "LineZ"
      [] geometry.kind = "LineStringZ" -> "LineStringZ"
      [] geometry.kind = "PolygonZ" -> "PolygonZ"
      [] geometry.kind = "MultiPointZ" -> "MultiPointZ"
      [] geometry.kind = "MultiLineStringZ" -> "MultiLineStringZ"
      [] geometry.kind = "MultiPolygonZ" -> "MultiPolygonZ"
      [] geometry.kind = "Rect" -> "Rect"

\* Error::MismatchedGeometry (error.rs)
MismatchedGeometry(expected, found) ==
    [kind |-> "MismatchedGeometry", expected |-> expected, found |-> found]

\* impl TryFrom<Geometry<T>> for $type<T>
TryFromGeometry(type, geom) ==
    IF type \notin TryFromImpls
    THEN CompileError
    ELSE IF geom.kind = type
         THEN Ok(geom.data)
         ELSE Err(MismatchedGeometry(type, inner_type_name(geom)))

(***************************************************************************)
(* Triangle export: from_geo_types.rs.  A Triangle is the tuple of its     *)
(* three vertices.  Triangle::to_polygon (geometry/triangle.rs) builds the *)
(* polygon with exterior [a, b, c, a], as geo_triangle_conversion_test     *)
(* states ("Polygon construction introduces an extra vertex").             *)
(***************************************************************************)
Triangle_to_polygon(triangle) ==
    PolygonZ_new(<<triangle[1], triangle[2], triangle[3], triangle[1]>>, <<>>)

create_from_triangle_type(triangle) ==
    create_polygon_type(Triangle_to_polygon(triangle))

\* impl From<&Triangle<T>> for geojson::Value
ValueFromTriangle(triangle) ==
    Ok(Value("Polygon", create_from_triangle_type(triangle)))

(***************************************************************************)
(* The literal decoder: wkt_macro.rs.  A literal is a sequence of token    *)
(* trees: identifiers, numeric literals, commas and parenthesised groups.  *)
(* wkt_internal! tries its rules in order; a literal no rule accepts, or   *)
(* one a compile_error! rule accepts, makes no value.                      *)
(***************************************************************************)
Ident(name) == [tag |-> "Ident", val |-> name]

Literal(n) == [tag |-> "Literal", val |-> n]

Group(tts) == [tag |-> "Group", val |-> tts]

Comma == [tag |-> "Comma"]

is_ident(tt, name) == tt.tag = "Ident" /\ tt.val = name

is_empty_tail(tail) == Len(tail) = 1 /\ is_ident(tail[1], "EMPTY")

is_group_tail(tail) == Len(tail) = 1 /\ tail[1].tag = "Group"

\* $( <n token trees> ),* with, when trailing, $(,)? after it: the number of
\* repetitions the body has room for.
repetitions(body, n) == (Len(body) + 1) \div (n + 1)

\* The i-th repetition of n token trees.
repetition(body, n, i) == SubSeq(body, (i - 1) * (n + 1) + 1, (i - 1) * (n + 1) + n)

\* The body matches $( <n token trees> ),* and, when trailing, $(,)?
is_separated(body, n, trailing) ==
    LET k == repetitions(body, n) IN
    \/ Len(body) = 0
    \/ /\ trailing
       /\ Len(body) = 1
       /\ body[1].tag = "Comma"
    \/ /\ k >= 1
       /\ \/ Len(body) = k * (n + 1) - 1
          \/ trailing /\ Len(body) = k * (n + 1)
       /\ \A i \in 1..Len(body) : (i % (n + 1) = 0) => body[i].tag = "Comma"

\* $x: literal $y: literal $z: literal
is_xyz(tts) == Len(tts) = 3 /\ \A i \in 1..3 : tts[i].tag = "Literal"

\* coordZ!(x: $x, y: $y, z: $z) and pointZ!(x: $x, y: $y, z: $z) (macros.rs)
coordZ(tts) == CoordZ(tts[1].val, tts[2].val, tts[3].val)

\* PolygonZ::empty() (geometry/polygon.rs)
PolygonZ_empty == [exterior |-> <<>>, interiors |-> <<>>]

\* The rules after POINT Z
wkt_POINT(tail) ==
    IF is_empty_tail(tail)
    THEN CompileError
    ELSE IF is_group_tail(tail) /\ is_xyz(tail[1].val)
         THEN Ok(coordZ(tail[1].val))
         ELSE CompileError

\* The rules after LINESTRING Z
wkt_LINESTRING(tail) ==
    IF is_empty_tail(tail)
    THEN Ok(<<>>)
    ELSE IF /\ is_group_tail(tail)
            /\ is_separated(tail[1].val, 3, TRUE)
            /\ \A i \in 1..repetitions(tail[1].val, 3) :
                  is_xyz(repetition(tail[1].val, 3, i))
         THEN Ok([i \in 1..repetitions(tail[1].val, 3) |->
                     coordZ(repetition(tail[1].val, 3, i))])
         ELSE CompileError

\* The rings of a POLYGON Z body, each decoded as LINESTRING Z <ring>.
wkt_rings(body) ==
    Collect([i \in 1..repetitions(body, 1) |->
                wkt_LINESTRING(repetition(body, 1, i))])

\* The POLYGON Z rules building the polygon from the rings as written,
\* without PolygonZ::new.
wkt_POLYGON_as_written(tail) ==
    IF is_empty_tail(tail)
    THEN Ok(PolygonZ_empty)
    ELSE IF /\ is_group_tail(tail)
            /\ Len(tail[1].val) > 0
            /\ is_separated(tail[1].val, 1, TRUE)
            /\ wkt_rings(tail[1].val).tag = "Ok"
         THEN Ok([exterior |-> Head(wkt_rings(tail[1].val).val),
                  interiors |-> Tail(wkt_rings(tail[1].val).val)])
         ELSE CompileError

\* The POLYGON Z rules with every literal taken by the one-ring rule: the
\* rings after the first are left out.
wkt_POLYGON_exterior_only(tail) ==
    IF is_empty_tail(tail)
    THEN Ok(PolygonZ_empty)
    ELSE IF /\ is_group_tail(tail)
            /\ Len(tail[1].val) > 0
            /\ is_separated(tail[1].val, 1, TRUE)
            /\ wkt_rings(tail[1].val).tag = "Ok"
         THEN Ok(PolygonZ_new(Head(wkt_rings(tail[1].val).val), <<>>))
         ELSE CompileError

\* The rules after POLYGON Z
wkt_POLYGON(tail) ==
    IF is_empty_tail(tail)
    THEN Ok(PolygonZ_empty)
    ELSE IF /\ is_group_tail(tail)
            /\ Len(tail[1].val) > 0
            /\ is_separated(tail[1].val, 1, TRUE)
            /\ wkt_rings(tail[1].val).tag = "Ok"
         THEN Ok(PolygonZ_new(Head(wkt_rings(tail[1].val).val),
                              Tail(wkt_rings(tail[1].val).val)))
         ELSE CompileError

\* ( $x: literal $y: literal $z: literal )
is_xyz_group(tts) == is_group_tail(tts) /\ is_xyz(tts[1].val)

\* The rules after MULTIPOINT Z
wkt_MULTIPOINT(tail) ==
    IF is_empty_tail(tail)
    THEN Ok(<<>>)
    ELSE IF /\ is_group_tail(tail)
            /\ Len(tail[1].val) > 0
            /\ is_separated(tail[1].val, 1, FALSE)
            /\ \A i \in 1..repetitions(tail[1].val, 1) :
                  is_xyz_group(repetition(tail[1].val, 1, i))
         THEN Ok([i \in 1..repetitions(tail[1].val, 1) |->
                     coordZ(repetition(tail[1].val, 1, i)[1].val)])
         ELSE CompileError

\* The rules after MULTILINESTRING Z
wkt_MULTILINESTRING(tail) ==
    IF is_empty_tail(tail)
    THEN Ok(<<>>)
    ELSE IF /\ is_group_tail(tail)
            /\ is_separated(tail[1].val, 1, TRUE)
            /\ wkt_rings(tail[1].val).tag = "Ok"
         THEN wkt_rings(tail[1].val)
         ELSE CompileError

\* The rules after MULTIPOLYGON Z
wkt_MULTIPOLYGON(tail) ==
    IF is_empty_tail(tail)
    THEN Ok(<<>>)
    ELSE IF /\ is_group_tail(tail)
            /\ Len(tail[1].val) > 0
            /\ is_separated(tail[1].val, 1, TRUE)
         THEN Collect([i \in 1..repetitions(tail[1].val, 1) |->
                          wkt_POLYGON(repetition(tail[1].val, 1, i))])
         ELSE CompileError

\* The literal after its first token is a Z marker and a tail.
has_z(wkt) == Len(wkt) >= 2 /\ is_ident(wkt[2], "Z")

\* $crate::Geometry::from($crate::wkt!($el_type $el_tt))
wkt_member(r) == IF r.tag = "Ok" THEN GeometryFrom(r.val.kind, r.val.data) ELSE r

\* wkt_internal!: the decoded entity with its static type, or CompileError.
RECURSIVE wkt_internal(_)
wkt_internal(wkt) ==
    CASE Len(wkt) = 0 \/ wkt[1].tag # "Ident" -> CompileError
      [] is_ident(wkt[1], "POINT") /\ has_z(wkt) ->
            Wrapped("PointZ", wkt_POINT(Tail(Tail(wkt))))
      [] is_ident(wkt[1], "LINESTRING") /\ has_z(wkt) ->
            Wrapped("LineStringZ", wkt_LINESTRING(Tail(Tail(wkt))))
      [] is_ident(wkt[1], "POLYGON") /\ has_z(wkt) ->
            Wrapped("PolygonZ", wkt_POLYGON(Tail(Tail(wkt))))
      [] is_ident(wkt[1], "MULTIPOINT") /\ has_z(wkt) ->
            Wrapped("MultiPointZ", wkt_MULTIPOINT(Tail(Tail(wkt))))
      [] is_ident(wkt[1], "MULTILINESTRING") /\ has_z(wkt) ->
            Wrapped("MultiLineStringZ", wkt_MULTILINESTRING(Tail(Tail(wkt))))
      [] is_ident(wkt[1], "MULTIPOLYGON") /\ has_z(wkt) ->
            Wrapped("MultiPolygonZ", wkt_MULTIPOLYGON(Tail(Tail(wkt))))
      [] is_ident(wkt[1], "GEOMETRYCOLLECTION") ->
            IF is_empty_tail(Tail(wkt))
            THEN Ok(Geom("GeometryCollection", <<>>))
            ELSE IF /\ is_group_tail(Tail(wkt))
                    /\ Len(wkt[2].val) > 0
                    /\ is_separated(wkt[2].val, 2, TRUE)
                 THEN Wrapped("GeometryCollection",
                              Collect([i \in 1..repetitions(wkt[2].val, 2) |->
                                          wkt_member(wkt_internal(
                                              repetition(wkt[2].val, 2, i)))]))
                 ELSE CompileError
      [] OTHER -> CompileError

(***************************************************************************)
(* Parallel iteration: geometry/multi_point_z.rs.  The three forms hand    *)
(* the stored Vec to the rayon iterators of Vec and slice                  *)
(* (into_par_iter, par_iter, par_iter_mut), whose workers divide the index *)
(* range among themselves: every index is produced by one worker, in an    *)
(* order the scheduler decides.                                            *)
(***************************************************************************)
ParForms == {"owned", "shared", "mutable"}

\* The parallel iterator made over all stored points but the first.
into_par_iter_skip_first(multi_point, form) ==
    IF multi_point = <<>> THEN <<>> ELSE Tail(multi_point)

\* into_par_iter: the items are the stored points, self.0, in every form.
into_par_iter(multi_point, form) == multi_point

(***************************************************************************)
(* Zero and approximate equality: geometry/coord_z.rs, geometry/point_z.rs *)
(***************************************************************************)
\* |a - b| on scalars.
abs_diff(a, b) == IF a > b THEN a - b ELSE b - a

\* approx: AbsDiffEq for a float scalar.
T_abs_diff_eq(a, b, epsilon) == abs_diff(a, b) <= epsilon

\* approx: RelativeEq for a float scalar (the scalars of the model are
\* finite and not negative, so |a| = a).
T_relative_eq(a, b, epsilon, max_relative) ==
    \/ a = b
    \/ abs_diff(a, b) <= epsilon
    \/ abs_diff(a, b) <= (IF a > b THEN a ELSE b) * max_relative

\* impl AbsDiffEq for CoordZ<T>
abs_diff_eq(self, other, epsilon) ==
    T_abs_diff_eq(self.x, other.x, epsilon) /\ T_abs_diff_eq(self.y, other.y, epsilon)

\* impl RelativeEq for CoordZ<T>
relative_eq(self, other, epsilon, max_relative) ==
    /\ T_relative_eq(self.x, other.x, epsilon, max_relative)
    /\ T_relative_eq(self.y, other.y, epsilon, max_relative)

\* impl AbsDiffEq for PointZ<T>: self.0.abs_diff_eq(&other.0, epsilon)
PointZ_abs_diff_eq(self, other, epsilon) == abs_diff_eq(self, other, epsilon)

\* impl RelativeEq for PointZ<T>: self.0.relative_eq(&other.0, ..)
PointZ_relative_eq(self, other, epsilon, max_relative) ==
    relative_eq(self, other, epsilon, max_relative)

\* CoordZ::zero
zero == CoordZ(0, 0, 0)

\* impl Zero for CoordZ<T>: is_zero
is_zero(self) == self.x = 0 /\ self.y = 0

(***************************************************************************)
(* Bounding box: private_utils.rs                                          *)
(***************************************************************************)
\* Cube is the box of two corners; its module is not part of the sources
\* (geometry/mod.rs keeps `pub use cube::Cube` commented out).
Cube_new(min, max) == [min |-> min, max |-> max]

get_min_max(p, min, max) ==
    IF p > max THEN <<min, p>> ELSE IF p < min THEN <<p, max>> ELSE <<min, max>>

\* The loop over the coordinates after the first: each range is [1] = min,
\* [2] = max.
RECURSIVE bounding_ranges(_, _)
bounding_ranges(iter, ranges) ==
    IF iter = <<>>
    THEN ranges
    ELSE bounding_ranges(Tail(iter),
            [x |-> get_min_max(Head(iter).x, ranges.x[1], ranges.x[2]),
             y |-> get_min_max(Head(iter).y, ranges.y[1], ranges.y[2]),
             z |-> get_min_max(Head(iter).z, ranges.z[1], ranges.z[2])])

\* The body of get_bounding_rect, the third binding of line 35 read under
\* the name line 38 uses: None is <<>>, Some(cube) is <<cube>>.  The maximum
\* corner takes its z from yrange.1.
get_bounding_rect_body(collection) ==
    IF collection = <<>>
    THEN Ok(<<>>)
    ELSE LET pnt == Head(collection)
             r == bounding_ranges(Tail(collection),
                     [x |-> <<pnt.x, pnt.x>>, y |-> <<pnt.y, pnt.y>>,
                      z |-> <<pnt.z, pnt.z>>])
         IN  Ok(<<Cube_new(CoordZ(r.x[1], r.y[1], r.z[1]),
                           CoordZ(r.x[2], r.y[2], r.y[2]))>>)

\* The outcomes of a call of get_bounding_rect: line 38 reads pz, which no
\* binding introduces (line 35 binds px, py and z), so the function as
\* written is rejected by the compiler; with the binding named as line 38
\* reads it the body above runs.
get_bounding_rect(collection) ==
    {CompileError, get_bounding_rect_body(collection)}

(***************************************************************************)
(* Bounded inputs                                                          *)
(***************************************************************************)
Coords == {CoordZ(x, y, z) : x \in Num, y \in Num, z \in Num}

\* Coordinates whose three components differ, so that a swapped or dropped
\* axis is visible.
CA == CoordZ(0, 1, MaxNum)

CB == CoordZ(MaxNum, 0, 1)

CC == CoordZ(1, MaxNum, 0)

SampleCoords == {CA, CB, CC}

LinePool == {<<>>, <<CA, CB>>, <<CB, CA, CB>>}

PolyPool == {PolygonZ_new(<<>>, <<>>),
             PolygonZ_new(<<CA, CB>>, <<>>),
             PolygonZ_new(<<CA, CB, CA>>, <<<<CB>>>>)}

\* Two-axis entities of the geo_types crate.
LA == Coord(0, MaxNum)

LB == Coord(MaxNum, 1)

LegacySamples ==
    {Geom("Point", LA),
     Geom("Line", [start |-> LA, end |-> LB]),
     Geom("LineString", <<LA, LB>>),
     Geom("Polygon", [exterior |-> <<LA, LB, LA>>, interiors |-> <<>>]),
     Geom("MultiPoint", <<LA, LB>>),
     Geom("MultiLineString", <<<<LA, LB>>>>),
     Geom("MultiPolygon", <<[exterior |-> <<LA, LB, LA>>, interiors |-> <<>>]>>),
     Geom("Rect", [min |-> Coord(0, 0), max |-> Coord(MaxNum, 1)])}

\* Members a collection is built from: one entity of every variant and
\* nested collections.
MemberPool ==
    LegacySamples \cup
    {Geom("PointZ", CA),
     Geom("LineZ", [start |-> CA, end |-> CB]),
     Geom("LineStringZ", <<CA, CB>>),
     Geom("PolygonZ", PolygonZ_new(<<CA, CB, CA>>, <<>>)),
     Geom("MultiPointZ", <<>>),
     Geom("MultiPointZ", <<CA, CB>>),
     Geom("MultiLineStringZ", <<<<CA, CB>>>>),
     Geom("MultiPolygonZ", <<PolygonZ_new(<<CA, CB, CA>>, <<>>)>>),
     Geom("GeometryCollection", <<>>),
     Geom("GeometryCollection", <<Geom("MultiPointZ", <<>>)>>),
     Geom("GeometryCollection", <<Geom("PointZ", CB)>>)}

\* The values of the concrete three-axis type k.
Entities(k) ==
    CASE k = "PointZ" -> Coords
      [] k = "LineZ" -> [start : SampleCoords, end : SampleCoords]
      [] k = "LineStringZ" -> SeqsUpTo(SampleCoords, MaxLen)
      [] k = "PolygonZ" ->
            {PolygonZ_new(e, is) : e \in SeqsUpTo({CA, CB}, MaxLen),
                                   is \in SeqsUpTo(LinePool, MaxRings - 1)}
      [] k = "MultiPointZ" -> SeqsUpTo(SampleCoords, MaxMembers)
      [] k = "MultiLineStringZ" -> SeqsUpTo(LinePool, MaxMembers)
      [] k = "MultiPolygonZ" -> SeqsUpTo(PolyPool, MaxMembers)
      [] k = "GeometryCollection" -> SeqsUpTo(MemberPool, MaxMembers)

\* Values of enum Geometry.
Geometries ==
    LegacySamples \cup
    UNION {{Geom(k, d) : d \in Entities(k)} : k \in CurrentKinds}

\* Interchange positions: 2 to MaxPosLen numbers.
Positions == UNION {[1..n -> Num] : n \in 2..MaxPosLen}

PA == <<0, 1, MaxNum>>

PB == <<MaxNum, 0, 1>>

PShort == <<1, MaxNum>>

SamplePos == {PA, PB, PShort}

RingValues == {<<>>, <<PA>>, <<PA, PB>>, <<PA, PB, PA>>, <<PShort>>}

PolygonSampleValues ==
    {<<>>, <<<<PA, PB>>>>, <<<<PA, PB, PA>>, <<PB>>>>, <<<<PShort>>>>}

ValueMemberPool ==
    {Value("Point", PA),
     Value("Point", PShort),
     Value("LineString", <<PA, PB>>),
     Value("Polygon", <<<<PA, PB>>>>),
     Value("MultiPoint", <<PB>>),
     Value("MultiLineString", <<<<PA>>>>),
     Value("MultiPolygon", <<<<<<PA, PB, PA>>>>>>),
     Value("GeometryCollection", <<>>),
     Value("GeometryCollection", <<Value("Point", PB)>>),
     Value("GeometryCollection", <<Value("Point", PShort)>>)}

ValuesOf(t) ==
    CASE t = "Point" -> Positions
      [] t = "LineString" -> SeqsUpTo(SamplePos, MaxLen)
      [] t = "Polygon" -> SeqsUpTo(RingValues, MaxRings)
      [] t = "MultiPoint" -> SeqsUpTo(SamplePos, MaxMembers)
      [] t = "MultiLineString" ->
            SeqsUpTo({<<>>, <<PA, PB>>, <<PShort>>}, MaxMembers)
      [] t = "MultiPolygon" -> SeqsUpTo(PolygonSampleValues, MaxMembers)
      [] t = "GeometryCollection" -> SeqsUpTo(ValueMemberPool, MaxMembers)

Values == UNION {{Value(t, d) : d \in ValuesOf(t)} : t \in ValueKinds}

Features == {Feature(<<>>)} \cup {Feature(<<v>>) : v \in ValueMemberPool}

FeaturePool ==
    {Feature(<<>>),
     Feature(<<Value("Point", PA)>>),
     Feature(<<Value("LineString", <<PA, PB>>)>>),
     Feature(<<Value("Point", PShort)>>),
     Feature(<<Value("GeometryCollection", <<Value("Point", PB)>>)>>)}

Docs ==
    {GeoJsonGeometry(v) : v \in ValueMemberPool}
    \cup {GeoJsonFeature(f) : f \in Features}
    \cup {GeoJsonFeatureCollection(fs) : fs \in SeqsUpTo(FeaturePool, MaxMembers)}

\* Triangles over the sample coordinates.
Triangles == {<<a, b, c>> : a \in SampleCoords, b \in SampleCoords, c \in SampleCoords}

\* The types a downcast is asked for: those try_from_geometry_impl! names and
\* the two variant types it leaves out.
DowncastTargets == TryFromImpls \cup {"LineZ", "GeometryCollection"}

\* The values Geometry::from takes.
FromInputs == {g \in Geometries : g.kind \in FromImpls}

\* Literals.  The written coordinates:
XA == <<Literal(0), Literal(1), Literal(MaxNum)>>

XB == <<Literal(MaxNum), Literal(0), Literal(1)>>

XC == <<Literal(1), Literal(MaxNum), Literal(0)>>

Z == Ident("Z")

EMPTY == Ident("EMPTY")

\* The items written one after the other with a comma between them.
RECURSIVE comma_list(_)
comma_list(items) ==
    IF Len(items) = 0
    THEN <<>>
    ELSE IF Len(items) = 1
         THEN items[1]
         ELSE items[1] \o <<Comma>> \o comma_list(Tail(items))

\* ( x y z, x y z, ... )
WrittenRing(coords) == Group(comma_list(coords))

WrittenRings ==
    {WrittenRing(cs) : cs \in SeqsUpTo({XA, XB}, MaxLen) \cup
                              {<<XA, XB, XA>>, <<XA, XB, XC>>}}

RingSamples == {EMPTY, WrittenRing(<<XA>>), WrittenRing(<<XA, XB>>),
                WrittenRing(<<XA, XB, XA>>), WrittenRing(<<XB, XA, XC>>)}

PolygonSamples ==
    {EMPTY,
     Group(<<WrittenRing(<<XA, XB>>)>>),
     Group(comma_list(<<<<WrittenRing(<<XA, XB, XA>>)>>, <<WrittenRing(<<XB>>)>>>>))}

ElementSamples ==
    {<<Ident("POINT"), WrittenRing(<<XA>>)>>,
     <<Ident("POINT"), Z, WrittenRing(<<XA>>)>>,
     <<Ident("LINESTRING"), EMPTY>>,
     <<Ident("LINESTRING"), Z, WrittenRing(<<XA, XB>>)>>,
     <<Ident("POLYGON"), Group(<<WrittenRing(<<XA, XB, XA>>)>>)>>,
     <<Ident("GEOMETRYCOLLECTION"), EMPTY>>,
     <<Ident("GEOMETRYCOLLECTION"), Group(<<Ident("GEOMETRYCOLLECTION"), EMPTY>>)>>}

\* ( item, item, ... ) for 1..n items of the pool, each item one token tree.
ListsOf(pool, n) ==
    {Group(comma_list([i \in DOMAIN s |-> <<s[i]>>])) :
        s \in SeqsUpTo(pool, n) \ {<<>>}}

Keywords == {"POINT", "LINESTRING", "POLYGON", "MULTIPOINT",
             "MULTILINESTRING", "MULTIPOLYGON", "GEOMETRYCOLLECTION"}

\* What is written after the keyword and the marker.
Bodies(k) ==
    {EMPTY, Group(<<>>)} \cup
    CASE k = "POINT" ->
            {Group(<<Literal(x), Literal(y), Literal(z)>>) :
                x \in Num, y \in Num, z \in Num}
            \cup {Group(<<Literal(0), Literal(1)>>)}
      [] k = "LINESTRING" ->
            WrittenRings \cup {Group(XA \o <<Comma>> \o XB \o <<Comma>>)}
      [] k = "POLYGON" -> ListsOf(RingSamples, MaxRings)
      [] k = "MULTIPOINT" ->
            ListsOf({Group(XA), Group(XB), Group(XC)}, MaxMembers)
            \cup {Group(XA)}
      [] k = "MULTILINESTRING" -> ListsOf(RingSamples, MaxMembers)
      [] k = "MULTIPOLYGON" -> ListsOf(PolygonSamples, MaxMembers)
      [] k = "GEOMETRYCOLLECTION" ->
            {Group(comma_list(s)) :
                s \in SeqsUpTo(ElementSamples, MaxMembers) \ {<<>>}}

\* <keyword> <body> and <keyword> Z <body>
Literals ==
    UNION {{<<Ident(k)>> \o m \o <<b>> : m \in {<<>>, <<Z>>}, b \in Bodies(k)} :
              k \in Keywords}

\* The Geometry variant an interchange kind imports as.
VariantOf(t) ==
    CASE t = "Point" -> "PointZ"
      [] t = "MultiPoint" -> "MultiPointZ"
      [] t = "LineString" -> "LineStringZ"
      [] t = "MultiLineString" -> "MultiLineStringZ"
      [] t = "Polygon" -> "PolygonZ"
      [] t = "MultiPolygon" -> "MultiPolygonZ"
      [] t = "GeometryCollection" -> "GeometryCollection"

\* Tolerances of an approximate comparison.
Tolerances == {0, 1}

\* Coordinates a bounding box is taken over: the samples, the zero
\* coordinate and a coordinate of equal components.
BoxCoords == SampleCoords \cup {zero, CoordZ(1, 1, 1)}

(***************************************************************************)
(* The state machine: one conversion call per step.                        *)
(*   op     the call made ("init" before any call)                         *)
(*   input  the argument of the call                                       *)
(*   target the type asked for (imports), or the static type (exports)     *)
(*   mid    what a second step reads: the exported value of a re-import,   *)
(*          the wrapped Geometry of a downcast, the items of an iterator   *)
(*   result the outcome of the call                                        *)
(***************************************************************************)
Init ==
    /\ op = "init"
    /\ input = NoResult
    /\ target = "none"
    /\ mid = NoResult
    /\ result = NoResult

\* geojson::Value::from(&x) for x of a concrete three-axis type.
ExportConcrete ==
    /\ op = "init"
    /\ \E k \in CurrentKinds : \E d \in Entities(k) :
          /\ input' = d
          /\ target' = k
          /\ result' = ValueFromConcrete(k, d)
    /\ op' = "export_concrete"
    /\ UNCHANGED mid

\* geojson::Value::from(&g) for g: Geometry.
ExportGeometry ==
    /\ op = "init"
    /\ \E g \in Geometries :
          /\ input' = g
          /\ result' = ValueFromGeometry(g)
    /\ op' = "export_geometry"
    /\ target' = "Geometry"
    /\ UNCHANGED mid

\* Geometry::try_from(&v) on the value v an export of a Geometry returned.
Reimport ==
    /\ op = "export_geometry"
    /\ result.tag = "Ok"
    /\ mid' = result.val
    /\ result' = GeometryTryFromValue(result.val)
    /\ op' = "roundtrip"
    /\ UNCHANGED <<input, target>>

\* K::try_from(&v) for an interchange value v.
ImportValue ==
    /\ op = "init"
    /\ \E k \in Targets : \E v \in Values :
          /\ input' = v
          /\ target' = k
          /\ result' = TryFromValue(k, v)
    /\ op' = "import_value"
    /\ UNCHANGED mid

\* K::try_from(feature)
ImportFeature ==
    /\ op = "init"
    /\ \E k \in Targets : \E f \in Features :
          /\ input' = f
          /\ target' = k
          /\ result' = TryFromFeature(k, f)
    /\ op' = "import_feature"
    /\ UNCHANGED mid

\* GeometryCollection::try_from(&doc) and Geometry::try_from(doc)
ImportGeoJson ==
    /\ op = "init"
    /\ \E k \in DocTargets : \E gj \in Docs :
          /\ input' = gj
          /\ target' = k
          /\ result' = TryFromGeoJson(k, gj)
    /\ op' = "import_geojson"
    /\ UNCHANGED mid

\* geojson::Value::from(&triangle)
ExportTriangle ==
    /\ op = "init"
    /\ \E t \in Triangles :
          /\ input' = t
          /\ result' = ValueFromTriangle(t)
    /\ op' = "export_triangle"
    /\ target' = "Triangle"
    /\ UNCHANGED mid

\* Geometry::try_from(feature_collection)
ImportFeatureCollection ==
    /\ op = "init"
    /\ \E fs \in SeqsUpTo(FeaturePool, MaxMembers) :
          /\ input' = fs
          /\ result' = GeometryTryFromFeatureCollection(fs)
    /\ op' = "import_feature_collection"
    /\ target' = "Geometry"
    /\ UNCHANGED mid

\* Geometry::from(x) for x of the type target.
WrapGeometry ==
    /\ op = "init"
    /\ \E g \in FromInputs :
          /\ input' = g.data
          /\ target' = g.kind
          /\ result' = GeometryFrom(g.kind, g.data)
    /\ op' = "geometry_from"
    /\ UNCHANGED mid

\* K::try_from(Geometry::from(x)) for x: K, on the Geometry just built.
DowncastBack ==
    /\ op = "geometry_from"
    /\ result.tag = "Ok"
    /\ mid' = result.val
    /\ result' = TryFromGeometry(target, result.val)
    /\ op' = "from_try_from"
    /\ UNCHANGED <<input, target>>

\* B::try_from(g) for a Geometry g and a type B.
Downcast ==
    /\ op = "init"
    /\ \E type \in DowncastTargets : \E g \in MemberPool :
          /\ input' = g
          /\ target' = type
          /\ result' = TryFromGeometry(type, g)
    /\ op' = "try_from_geometry"
    /\ UNCHANGED mid

\* wkt! { literal }
DecodeLiteral ==
    /\ op = "init"
    /\ \E wkt \in Literals :
          /\ input' = wkt
          /\ result' = wkt_internal(wkt)
    /\ op' = "wkt"
    /\ target' = "wkt"
    /\ UNCHANGED mid

\* multi_point.into_par_iter(), (&multi_point).into_par_iter() and
\* (&mut multi_point).into_par_iter(): no item is produced yet.
IntoParIter ==
    /\ op = "init"
    /\ \E form \in ParForms : \E multi_point \in Entities("MultiPointZ") :
          /\ input' = multi_point
          /\ target' = form
          /\ mid' = [items |-> into_par_iter(multi_point, form),
                     pending |-> DOMAIN into_par_iter(multi_point, form)]
    /\ result' = Ok(<<>>)
    /\ op' = "par_iter"

\* A worker produces the item of an index no worker has produced yet.
ParYield ==
    /\ op = "par_iter"
    /\ \E i \in mid.pending :
          /\ result' = Ok(Append(result.val, mid.items[i]))
          /\ mid' = [mid EXCEPT !.pending = @ \ {i}]
    /\ UNCHANGED <<op, input, target>>

\* K::try_from(Geometry::try_from(&v)?) for the concrete type K of the
\* kind of v, after a successful import of v as Geometry.
DowncastImported ==
    /\ op = "import_value"
    /\ target = "Geometry"
    /\ result.tag = "Ok"
    /\ mid' = result.val
    /\ target' = VariantOf(input.type)
    /\ result' = TryFromGeometry(VariantOf(input.type), result.val)
    /\ op' = "import_downcast"
    /\ UNCHANGED input

\* a.abs_diff_eq(&b, epsilon) on two coordinates or two points.
AbsDiffEq ==
    /\ op = "init"
    /\ \E a \in Coords : \E b \in Coords : \E epsilon \in Tolerances :
        \E type \in {"CoordZ", "PointZ"} :
          /\ input' = <<a, b>>
          /\ target' = type
          /\ mid' = [epsilon |-> epsilon]
          /\ result' = Ok(IF type = "CoordZ"
                           THEN abs_diff_eq(a, b, epsilon)
                           ELSE PointZ_abs_diff_eq(a, b, epsilon))
    /\ op' = "abs_diff_eq"

\* a.relative_eq(&b, epsilon, max_relative) on two coordinates or points.
RelativeEq ==
    /\ op = "init"
    /\ \E a \in Coords : \E b \in Coords : \E epsilon \in Tolerances :
        \E max_relative \in Tolerances : \E type \in {"CoordZ", "PointZ"} :
          /\ input' = <<a, b>>
          /\ target' = type
          /\ mid' = [epsilon |-> epsilon, max_relative |-> max_relative]
          /\ result' = Ok(IF type = "CoordZ"
                           THEN relative_eq(a, b, epsilon, max_relative)
                           ELSE PointZ_relative_eq(a, b, epsilon, max_relative))
    /\ op' = "relative_eq"

\* c.is_zero()
IsZero ==
    /\ op = "init"
    /\ \E c \in Coords :
          /\ input' = c
          /\ result' = Ok(is_zero(c))
    /\ target' = "CoordZ"
    /\ op' = "is_zero"
    /\ UNCHANGED mid

\* get_bounding_rect(collection)
BoundingRect ==
    /\ op = "init"
    /\ \E collection \in SeqsUpTo(BoxCoords, MaxMembers) :
          /\ input' = collection
          /\ result' \in get_bounding_rect(collection)
    /\ target' = "Cube"
    /\ op' = "bounding_rect"
    /\ UNCHANGED mid

Next ==
    \/ ExportConcrete
    \/ ExportGeometry
    \/ Reimport
    \/ ImportValue
    \/ ImportFeature
    \/ ImportGeoJson
    \/ ExportTriangle
    \/ ImportFeatureCollection
    \/ WrapGeometry
    \/ DowncastBack
    \/ Downcast
    \/ DecodeLiteral
    \/ IntoParIter
    \/ ParYield
    \/ DowncastImported
    \/ AbsDiffEq
    \/ RelativeEq
    \/ IsZero
    \/ BoundingRect

Spec == Init /\ [][Next]_vars

(***************************************************************************)
(* Properties                                                              *)
(***************************************************************************)
\* The position [x, y, z] of a coordinate.
Position3(c) == <<c.x, c.y, c.z>>

Ring3(cs) == [i \in DOMAIN cs |-> Position3(cs[i])]

\* The coordinate a position of three or more elements denotes.
CoordOf(p) == CoordZ(p[1], p[2], p[3])

RingOf(r) == [i \in DOMAIN r |-> CoordOf(r[i])]

\* A ring with its first coordinate appended when it is open.
Closed(cs) ==
    IF Len(cs) >= 2 /\ cs[1] # cs[Len(cs)] THEN cs \o <<cs[1]>> ELSE cs

\* g uses only the current three-axis variants, at every depth.
RECURSIVE OnlyCurrent(_)
OnlyCurrent(g) ==
    /\ g.kind \in CurrentKinds
    /\ g.kind = "GeometryCollection" =>
          \A i \in DOMAIN g.data : OnlyCurrent(g.data[i])

\* C1: for every geometry g of the current three-axis variants (polygon
\* rings closed), exporting g returns a value, and importing that value as
\* Geometry yields a geometry equal to g.
C1_RoundTrip ==
    /\ (op = "export_geometry" /\ OnlyCurrent(input)) => result.tag = "Ok"
    /\ (op = "roundtrip" /\ OnlyCurrent(input)) => result = Ok(input)

\* C2: exporting PointZ(x, y, z) yields the Point value with the position
\* [x, y, z]; every coordinate of an exported LineString or MultiPoint is
\* written as the same three-element position.
C2_ThreeElementPosition ==
    /\ (op = "export_concrete" /\ target = "PointZ") =>
          result = Ok(Value("Point", Position3(input)))
    /\ (op = "export_concrete" /\ target = "LineStringZ") =>
          result = Ok(Value("LineString", Ring3(input)))
    /\ (op = "export_concrete" /\ target = "MultiPointZ") =>
          result = Ok(Value("MultiPoint", Ring3(input)))

\* C3: exporting a value of any variant of Geometry, or of any concrete
\* type, returns an interchange value and never aborts.
C3_ExportTotal ==
    op \in {"export_concrete", "export_geometry"} => result.tag = "Ok"

\* The interchange kind a concrete import target accepts.
KindName(k) ==
    CASE k = "PointZ" -> "Point"
      [] k = "MultiPointZ" -> "MultiPoint"
      [] k = "LineStringZ" -> "LineString"
      [] k = "MultiLineStringZ" -> "MultiLineString"
      [] k = "PolygonZ" -> "Polygon"
      [] k = "MultiPolygonZ" -> "MultiPolygon"
      [] k = "GeometryCollection" -> "GeometryCollection"

\* C4: importing a value tagged K' as a concrete type of another kind K
\* fails with InvalidGeometryConversion whose expected_type names K and
\* whose found_type names K'.
C4_MismatchNamesBothKinds ==
    (/\ op = "import_value"
     /\ target \in ConcreteTargets
     /\ input.type # KindName(target)) =>
        result = Err(InvalidGeometryConversion(KindName(target), input.type))

\* Every position of a ring list has at least three elements.
RingsWellFormed(R) ==
    \A i \in DOMAIN R : \A j \in DOMAIN R[i] : Len(R[i][j]) >= 3

\* The polygon an import returned (the import target is PolygonZ or
\* Geometry).
ImportedPolygon == IF target = "Geometry" THEN result.val.data ELSE result.val

PolygonImport ==
    /\ op = "import_value"
    /\ target \in {"PolygonZ", "Geometry"}
    /\ input.type = "Polygon"

C6_FlattenRings ==
    (op = "export_concrete" /\ target = "PolygonZ") =>
        /\ result.tag = "Ok"
        /\ Len(result.val.coordinates) = Len(input.interiors) + 1
        /\ result.val.coordinates[1] = Ring3(input.exterior)
        /\ \A i \in DOMAIN input.interiors :
              result.val.coordinates[i + 1] = Ring3(input.interiors[i])

\* The outcomes of importing each member of a collection value as Geometry.
MemberOutcomes(v) ==
    [i \in DOMAIN v.coordinates |-> GeometryTryFromValue(v.coordinates[i])]

\* C7: importing a GeometryCollection value, as GeometryCollection or as
\* Geometry, one of whose members fails to import returns the first failing
\* member's error as an error value; it does not abort.
C7_FailFast ==
    (/\ op = "import_value"
     /\ target \in {"GeometryCollection", "Geometry"}
     /\ input.type = "GeometryCollection"
     /\ FirstFailure(MemberOutcomes(input)) # 0) =>
        /\ result.tag = "Err"
        /\ result = MemberOutcomes(input)[FirstFailure(MemberOutcomes(input))]

\* The geometries of the features that carry one, in feature order.
CarriedGeometries(fs) ==
    LET withGeometry == SelectSeq(fs, LAMBDA f : Len(f.geometry) = 1)
    IN  [i \in DOMAIN withGeometry |-> withGeometry[i].geometry[1]]

\* C8: importing a feature collection as a GeometryCollection returns a
\* collection with one member per feature that carries a geometry, in
\* feature order (member i is the variant of the i-th carried geometry),
\* features without geometry being dropped; it is never an error.
C8_FeatureCollectionMembers ==
    (/\ op = "import_geojson"
     /\ target = "GeometryCollection"
     /\ input.doc = "FeatureCollection") =>
        LET gs == CarriedGeometries(input.body)
        IN  /\ result.tag = "Ok"
            /\ Len(result.val) = Len(gs)
            /\ \A i \in DOMAIN gs : result.val[i].kind = VariantOf(gs[i].type)

StandaloneFeature == op = "import_geojson" /\ input.doc = "Feature"

\* C9 as written: a standalone feature without geometry imports as an empty
\* GeometryCollection, never as an error.
C9_NeverAnError ==
    (StandaloneFeature /\ Len(input.body.geometry) = 0) =>
        /\ result.tag = "Ok"
        /\ target = "GeometryCollection" => result.val = <<>>
        /\ target = "Geometry" => result.val = Geom("GeometryCollection", <<>>)

\* C9 (amended): imported as a GeometryCollection, a standalone feature
\* without geometry gives the empty collection, and one with a geometry
\* gives the one-element collection holding the Geometry its geometry
\* imports as (the import aborts when that member import aborts).  Imported
\* as a Geometry, a standalone feature without geometry fails with
\* FeatureHasNoGeometry, and one with a geometry gives that imported
\* geometry itself, not a collection around it.
C9_StandaloneFeature ==
    StandaloneFeature =>
        IF Len(input.body.geometry) = 0
        THEN /\ target = "GeometryCollection" => result = Ok(<<>>)
             /\ target = "Geometry" =>
                   result = Err(FeatureHasNoGeometry(input.body))
        ELSE LET r == GeometryTryFromValue(input.body.geometry[1])
             IN  /\ target = "GeometryCollection" =>
                       result = IF r.tag = "Ok" THEN Ok(<<r.val>>) ELSE r
                 /\ target = "Geometry" => result = r

\* C9 witness: a standalone feature without geometry was imported as a
\* GeometryCollection and gave the empty collection.
C9_Witness ==
    /\ StandaloneFeature
    /\ Len(input.body.geometry) = 0
    /\ target = "GeometryCollection"
    /\ result = Ok(<<>>)

\* C10: importing a Feature into a concrete type, Geometry or
\* GeometryCollection fails with FeatureHasNoGeometry exactly when the
\* feature has no geometry; when it has one, the outcome is that of
\* importing that geometry into the same type.
C10_FeatureImport ==
    op = "import_feature" =>
        /\ Len(input.geometry) = 0 =>
              result = Err(FeatureHasNoGeometry(input))
        /\ Len(input.geometry) = 1 =>
              /\ result = TryFromValue(target, input.geometry[1])
              /\ ~(result.tag = "Err" /\ result.err.kind = "FeatureHasNoGeometry")

\* C10 witness: a feature without geometry was imported as a concrete type
\* and the import failed with FeatureHasNoGeometry.
C10_Witness ==
    /\ op = "import_feature"
    /\ target = "PolygonZ"
    /\ Len(input.geometry) = 0
    /\ result.tag = "Err"
    /\ result.err.kind = "FeatureHasNoGeometry"

\* A feature collection was imported directly as a Geometry, by
\* Geometry::try_from(feature_collection) or Geometry::try_from(document).
FeatureCollectionAsGeometry ==
    \/ op = "import_feature_collection"
    \/ /\ op = "import_geojson"
       /\ target = "Geometry"
       /\ input.doc = "FeatureCollection"

ImportedFeatures == IF op = "import_feature_collection" THEN input ELSE input.body

\* C11: importing a feature collection directly as a Geometry gives
\* Geometry::GeometryCollection around exactly the collection that importing
\* the same feature collection as a GeometryCollection gives; it succeeds
\* whenever that import succeeds and gives no value when it does not.
C11_FeatureCollectionAsGeometry ==
    FeatureCollectionAsGeometry =>
        LET underlying ==
                GeometryCollectionTryFromGeoJson(GeoJsonFeatureCollection(ImportedFeatures))
        IN  IF underlying.tag = "Ok"
            THEN /\ result.tag = "Ok"
                 /\ result.val.kind = "GeometryCollection"
                 /\ result.val.data = underlying.val
            ELSE result.tag # "Ok"

\* C11 witness: a feature collection of a feature without geometry and a
\* feature with one was imported as a Geometry, and the result is a
\* Geometry::GeometryCollection of one member.
C11_Witness ==
    /\ op = "import_feature_collection"
    /\ Len(input) = 2
    /\ Len(input[1].geometry) = 0
    /\ result.tag = "Ok"
    /\ result.val.kind = "GeometryCollection"
    /\ Len(result.val.data) = 1

\* C12: downcasting a Geometry holding variant A into another type B fails
\* with MismatchedGeometry whose expected field names B and whose found
\* field names A, for every variant A, the two-axis variants and Rect
\* included.
C12_MismatchNamesBothTypes ==
    (op = "try_from_geometry" /\ target \in TryFromImpls /\ input.kind # target) =>
        /\ result.tag = "Err"
        /\ result.err = MismatchedGeometry(target, input.kind)

\* C13: for x of any of the eight variant types, Geometry::from(x) downcast
\* to x's own type succeeds and gives back x.
C13_FromThenTryFrom ==
    (op = "from_try_from" /\ target \in CurrentKinds) =>
        /\ result.tag = "Ok"
        /\ result.val = input

\* The type a kind keyword stands for.
TypeOfKeyword(k) ==
    CASE k = "POINT" -> "PointZ"
      [] k = "LINESTRING" -> "LineStringZ"
      [] k = "POLYGON" -> "PolygonZ"
      [] k = "MULTIPOINT" -> "MultiPointZ"
      [] k = "MULTILINESTRING" -> "MultiLineStringZ"
      [] k = "MULTIPOLYGON" -> "MultiPolygonZ"
      [] k = "GEOMETRYCOLLECTION" -> "GeometryCollection"

\* The entity of the keyword's kind without coordinates or members.
EmptyEntity(k) ==
    IF k = "POLYGON"
    THEN Geom("PolygonZ", [exterior |-> <<>>, interiors |-> <<>>])
    ELSE Geom(TypeOfKeyword(k), <<>>)

\* A literal of a kind keyword followed by one token tree.
BareLiteral ==
    /\ op = "wkt"
    /\ Len(input) = 2
    /\ input[1].tag = "Ident"
    /\ input[1].val \in Keywords

\* C14: EMPTY after a kind keyword decodes to the empty entity of that kind
\* for LineString, Polygon, MultiPoint, MultiLineString, MultiPolygon and
\* GeometryCollection, and makes no value for Point.
C14_EmptyKeyword ==
    (BareLiteral /\ is_ident(input[2], "EMPTY")) =>
        IF input[1].val = "POINT"
        THEN result.tag # "Ok"
        ELSE /\ result.tag = "Ok"
             /\ result.val = EmptyEntity(input[1].val)

\* The literal with the Z marker put after its keyword.
Marked(wkt) ==
    IF has_z(wkt) \/ is_ident(wkt[1], "GEOMETRYCOLLECTION")
    THEN wkt
    ELSE <<wkt[1], Z>> \o Tail(wkt)

\* C15: a bare kind keyword followed by a parenthesised list that is well
\* formed for the kind decodes to the entity the list denotes: POINT (x y z)
\* to the point x, y, z, and likewise LINESTRING, POLYGON, MULTIPOINT,
\* MULTILINESTRING and MULTIPOLYGON, with no marker after the keyword.
C15_BareKeywordForms ==
    (/\ BareLiteral
     /\ input[1].val # "GEOMETRYCOLLECTION"
     /\ input[2].tag = "Group"
     /\ wkt_internal(Marked(input)).tag = "Ok") =>
        /\ result.tag = "Ok"
        /\ result.val = wkt_internal(Marked(input)).val
        /\ input[1].val = "POINT" =>
              result.val.data =
                  CoordZ(input[2].val[1].val, input[2].val[2].val, input[2].val[3].val)

\* The comma-separated elements of a parenthesised list.
RECURSIVE Elements(_)
Elements(tts) ==
    IF \E i \in DOMAIN tts : tts[i].tag = "Comma"
    THEN LET i == CHOOSE i \in DOMAIN tts :
                      /\ tts[i].tag = "Comma"
                      /\ \A j \in 1..(i - 1) : tts[j].tag # "Comma"
         IN  <<SubSeq(tts, 1, i - 1)>> \o Elements(SubSeq(tts, i + 1, Len(tts)))
    ELSE IF Len(tts) = 0 THEN <<>> ELSE <<tts>>

\* A GEOMETRYCOLLECTION literal of one or more elements, each a kind
\* keyword (with or without its marker) and a literal well formed for it.
CollectionOfElements ==
    /\ BareLiteral
    /\ input[1].val = "GEOMETRYCOLLECTION"
    /\ input[2].tag = "Group"
    /\ Len(input[2].val) > 0
    /\ \A i \in DOMAIN Elements(input[2].val) :
          /\ Len(Elements(input[2].val)[i]) \in {2, 3}
          /\ wkt_internal(Marked(Elements(input[2].val)[i])).tag = "Ok"

\* C16: a non-empty GEOMETRYCOLLECTION literal decodes to a collection with
\* one member per element, in written order, each the Geometry variant of
\* the element's kind holding the element's decoded value.
C16_CollectionMembers ==
    CollectionOfElements =>
        /\ result.tag = "Ok"
        /\ result.val.kind = "GeometryCollection"
        /\ result.val.data =
              [i \in DOMAIN Elements(input[2].val) |->
                  wkt_internal(Marked(Elements(input[2].val)[i])).val]

\* The coordinates written in a ring: ( x y z, ... ), or EMPTY for none.
WrittenCoords(tt) ==
    IF tt.tag = "Group"
    THEN [i \in DOMAIN Elements(tt.val) |->
            CoordZ(Elements(tt.val)[i][1].val,
                   Elements(tt.val)[i][2].val,
                   Elements(tt.val)[i][3].val)]
    ELSE <<>>

\* A POLYGON Z ( ring, ... ) literal was decoded to a polygon.
PolygonLiteral ==
    /\ op = "wkt"
    /\ Len(input) = 3
    /\ is_ident(input[1], "POLYGON")
    /\ is_ident(input[2], "Z")
    /\ input[3].tag = "Group"
    /\ result.tag = "Ok"

\* The rings of the decoded literal, as written.
WrittenRingsOf ==
    [i \in DOMAIN Elements(input[3].val) |->
        WrittenCoords(Elements(input[3].val)[i][1])]

PolygonBuilt ==
    \/ PolygonLiteral
    \/ /\ PolygonImport
       /\ result.tag = "Ok"
       /\ Len(input.coordinates) > 0

GivenRings ==
    IF op = "wkt"
    THEN WrittenRingsOf
    ELSE [i \in DOMAIN input.coordinates |-> RingOf(input.coordinates[i])]

BuiltRings ==
    IF op = "wkt"
    THEN <<result.val.data.exterior>> \o result.val.data.interiors
    ELSE <<ImportedPolygon.exterior>> \o ImportedPolygon.interiors

C19_EmptyListRejected ==
    (/\ op = "wkt"
     /\ input[1].val \in Keywords \ {"POINT"}
     /\ input[Len(input)].tag = "Group"
     /\ Len(input[Len(input)].val) = 0) =>
        result.tag # "Ok"

\* C20: exporting the triangle (a, b, c) gives a Polygon value of one ring
\* of the four positions a, b, c, a.
C20_TriangleRing ==
    op = "export_triangle" =>
        result = Ok(Value("Polygon",
                          <<<<Position3(input[1]), Position3(input[2]),
                              Position3(input[3]), Position3(input[1])>>>>))

\* The interchange kind a Geometry variant exports as.
ExportedKind(k) ==
    CASE k \in {"Point", "PointZ"} -> "Point"
      [] k \in {"Line", "LineZ", "LineString", "LineStringZ"} -> "LineString"
      [] k \in {"Polygon", "PolygonZ", "Rect"} -> "Polygon"
      [] k \in {"MultiPoint", "MultiPointZ"} -> "MultiPoint"
      [] k \in {"MultiLineString", "MultiLineStringZ"} -> "MultiLineString"
      [] k \in {"MultiPolygon", "MultiPolygonZ"} -> "MultiPolygon"
      [] k = "GeometryCollection" -> "GeometryCollection"

\* The position starts with the x and y of the coordinate.
SameXY(position, c) ==
    /\ Len(position) >= 2
    /\ position[1] = c.x
    /\ position[2] = c.y

\* A GeometryCollection was exported, as its own type or held in a Geometry.
CollectionExport ==
    \/ op = "export_concrete" /\ target = "GeometryCollection"
    \/ op = "export_geometry" /\ input.kind = "GeometryCollection"

ExportedMembers == IF op = "export_concrete" THEN input ELSE input.data

\* C21: export keeps the number and the order of the elements: the n
\* coordinates of a LineString or MultiPoint give n positions in order, the n
\* members of a MultiLineString or MultiPolygon give n member arrays in
\* order, and the n members of a GeometryCollection give n tagged values
\* whose kinds are the members' kinds in order.
C21_CountAndOrder ==
    /\ (op = "export_concrete" /\ target \in {"LineStringZ", "MultiPointZ"}) =>
          /\ result.tag = "Ok"
          /\ Len(result.val.coordinates) = Len(input)
          /\ \A i \in DOMAIN input : SameXY(result.val.coordinates[i], input[i])
    /\ (op = "export_concrete" /\ target = "MultiLineStringZ") =>
          /\ result.tag = "Ok"
          /\ Len(result.val.coordinates) = Len(input)
          /\ \A i \in DOMAIN input :
                result.val.coordinates[i] = create_line_string_type(input[i])
    /\ (op = "export_concrete" /\ target = "MultiPolygonZ") =>
          /\ result.tag = "Ok"
          /\ Len(result.val.coordinates) = Len(input)
          /\ \A i \in DOMAIN input :
                result.val.coordinates[i] = create_polygon_type(input[i])
    /\ CollectionExport =>
          /\ result.tag = "Ok"
          /\ Len(result.val.coordinates) = Len(ExportedMembers)
          /\ \A i \in DOMAIN ExportedMembers :
                result.val.coordinates[i].type = ExportedKind(ExportedMembers[i].kind)

\* The number of times x occurs in the sequence s.
Count(s, x) == Cardinality({i \in DOMAIN s : s[i] = x})

\* The stored points whose index no worker has produced yet.
PendingCount(x) == Cardinality({i \in mid.pending : input[i] = x})

\* C22: parallel iteration over a MultiPoint, in any interleaving of the
\* workers and in each of the three forms, produces every stored point
\* exactly once: at every moment the points produced and the points still
\* to produce make up the stored multiset, so when nothing is left the
\* multiset produced is the multiset stored.
C22_ParallelMultiset ==
    op = "par_iter" =>
        /\ \A x \in Coords : Count(result.val, x) + PendingCount(x) = Count(input, x)
        /\ mid.pending = {} => Len(result.val) = Len(input)

\* C22 witness: the mutable-reference iteration over two different points
\* finished having produced the second point before the first.
C22_Witness ==
    /\ op = "par_iter"
    /\ target = "mutable"
    /\ Len(input) = 2
    /\ input[1] # input[2]
    /\ mid.pending = {}
    /\ result.val = <<input[2], input[1]>>

\* The value an import returned, out of its Geometry variant if need be.
Imported == IF target = "Geometry" THEN result.val.data ELSE result.val

\* Every position of the value has at least three elements.
AllPositionsLong(v) ==
    CASE v.type = "Point" -> Len(v.coordinates) >= 3
      [] v.type \in {"LineString", "MultiPoint"} ->
            \A i \in DOMAIN v.coordinates : Len(v.coordinates[i]) >= 3
      [] v.type \in {"MultiLineString", "Polygon"} ->
            RingsWellFormed(v.coordinates)
      [] v.type = "MultiPolygon" ->
            \A i \in DOMAIN v.coordinates : RingsWellFormed(v.coordinates[i])

\* The rings of a polygon, exterior first.
RingsOfPolygon(polygon) == <<polygon.exterior>> \o polygon.interiors

\* The polygon holds, ring by ring and in order, the coordinates the
\* positions of the ring list R denote (before any closing coordinate).
PolygonHolds(polygon, R) ==
    \A i \in DOMAIN R :
        SubSeq(RingsOfPolygon(polygon)[i], 1, Len(R[i])) = RingOf(R[i])

\* An interchange value of coordinates was imported as the type of its kind
\* or as Geometry.
CoordinateImport ==
    /\ op = "import_value"
    /\ input.type # "GeometryCollection"
    /\ target \in {VariantOf(input.type), "Geometry"}

\* C23: importing a position p of three or more elements gives the
\* coordinate x = p[0], y = p[1], z = p[2], for a Point value and for every
\* position of a LineString, MultiPoint, MultiLineString, Polygon and
\* MultiPolygon value alike.
C23_ImportXYZ ==
    (CoordinateImport /\ AllPositionsLong(input)) =>
        /\ result.tag = "Ok"
        /\ CASE input.type = "Point" -> Imported = CoordOf(input.coordinates)
              [] input.type \in {"LineString", "MultiPoint"} ->
                    Imported = RingOf(input.coordinates)
              [] input.type = "MultiLineString" ->
                    Imported = [i \in DOMAIN input.coordinates |->
                                   RingOf(input.coordinates[i])]
              [] input.type = "Polygon" ->
                    PolygonHolds(Imported, input.coordinates)
              [] input.type = "MultiPolygon" ->
                    /\ Len(Imported) = Len(input.coordinates)
                    /\ \A i \in DOMAIN input.coordinates :
                          PolygonHolds(Imported[i], input.coordinates[i])

\* C23 witness: a LineString value of two three-element positions whose
\* components all differ was imported as a LineStringZ.
C23_Witness ==
    /\ op = "import_value"
    /\ target = "LineStringZ"
    /\ input = Value("LineString", <<PA, PB>>)
    /\ result = Ok(<<CA, CB>>)

\* Some position of the value has exactly two elements.
SomePositionShort(v) ==
    CASE v.type = "Point" -> Len(v.coordinates) = 2
      [] v.type \in {"LineString", "MultiPoint"} ->
            \E i \in DOMAIN v.coordinates : Len(v.coordinates[i]) = 2
      [] v.type \in {"MultiLineString", "Polygon"} ->
            \E i \in DOMAIN v.coordinates : \E j \in DOMAIN v.coordinates[i] :
                Len(v.coordinates[i][j]) = 2
      [] v.type = "MultiPolygon" ->
            \E i \in DOMAIN v.coordinates : \E j \in DOMAIN v.coordinates[i] :
                \E k \in DOMAIN v.coordinates[i][j] :
                    Len(v.coordinates[i][j][k]) = 2

\* C24: importing a value whose positions have two elements [a, b] succeeds
\* and gives coordinates with x = a and y = b; it does not abort.
C24_TwoElementPositions ==
    (CoordinateImport /\ SomePositionShort(input)) =>
        /\ result.tag = "Ok"
        /\ input.type = "Point" =>
              /\ Imported.x = input.coordinates[1]
              /\ Imported.y = input.coordinates[2]

\* C25: a value of kind K imported as Geometry is the three-axis variant of
\* K, never a two-axis one, and downcasting it to the concrete type of K
\* succeeds and equals importing the value as that type directly.
C25_ImportThenDowncast ==
    /\ (op = "import_value" /\ target = "Geometry" /\ result.tag = "Ok") =>
          result.val.kind = VariantOf(input.type)
    /\ op = "import_downcast" =>
          /\ mid.kind = VariantOf(input.type)
          /\ result.tag = "Ok"
          /\ result = TryFromValue(target, input)

\* The two operands of an approximate comparison are apart on z: their z
\* components are not equal within the tolerances of the comparison.
ZApart ==
    IF op = "abs_diff_eq"
    THEN ~T_abs_diff_eq(input[1].z, input[2].z, mid.epsilon)
    ELSE ~T_relative_eq(input[1].z, input[2].z, mid.epsilon, mid.max_relative)

\* C26: approximate equality of coordinates and of points looks at x, y
\* and z: operands that agree on x and y and are apart on z are not
\* approximately equal, and operands whose x, y and z each differ by at
\* most epsilon are.
C26_ApproxUsesZ ==
    op \in {"abs_diff_eq", "relative_eq"} =>
        /\ (input[1].x = input[2].x /\ input[1].y = input[2].y /\ ZApart) =>
              result.val = FALSE
        /\ (/\ abs_diff(input[1].x, input[2].x) <= mid.epsilon
            /\ abs_diff(input[1].y, input[2].y) <= mid.epsilon
            /\ abs_diff(input[1].z, input[2].z) <= mid.epsilon) =>
              result.val = TRUE

\* C27: the expected_type of an InvalidGeometryConversion reported by the
\* import into a concrete type is one of the seven interchange kind names,
\* as found_type is, and differs from found_type (the value was refused).
C27_ExpectedFromKindNames ==
    (op = "import_value" /\ result.tag = "Err") =>
        /\ result.err.found_type \in ValueKinds
        /\ result.err.expected_type \in ValueKinds
        /\ result.err.expected_type # result.err.found_type

\* Every position of the value, and of every member of a collection value,
\* has at least three elements.
RECURSIVE PositionsLong(_)
PositionsLong(v) ==
    IF v.type = "GeometryCollection"
    THEN \A i \in DOMAIN v.coordinates : PositionsLong(v.coordinates[i])
    ELSE AllPositionsLong(v)

\* C28: when every position has at least three elements, importing a value
\* as Geometry returns no error; an import returns an error only into a
\* concrete type whose kind is not the kind of the value, and the error is
\* InvalidGeometryConversion; an import as GeometryCollection fails exactly
\* for a value that is not a collection, with that error.
C28_GeometryImportNeverErr ==
    op = "import_value" =>
        /\ (target = "Geometry" /\ PositionsLong(input)) => result.tag = "Ok"
        /\ result.tag = "Err" =>
              /\ target \in ConcreteTargets
              /\ result.err.kind = "InvalidGeometryConversion"
              /\ input.type # KindName(target)
        /\ (target = "GeometryCollection" /\ PositionsLong(input)) =>
              IF input.type = "GeometryCollection"
              THEN result.tag = "Ok"
              ELSE result.tag = "Err"

\* C28 witness: a collection value whose first member is a LineString of
\* two three-element positions was imported as Geometry with success.
C28_Witness ==
    /\ op = "import_value"
    /\ target = "Geometry"
    /\ input.type = "GeometryCollection"
    /\ Len(input.coordinates) >= 1
    /\ input.coordinates[1] = Value("LineString", <<PA, PB>>)
    /\ PositionsLong(input)
    /\ result.tag = "Ok"
    /\ result.val.data[1] = Geom("LineStringZ", <<CA, CB>>)

\* C29: c.is_zero() is true exactly when c is the zero coordinate, that is
\* when x, y and z are all zero.
C29_IsZeroIffZero ==
    op = "is_zero" => result.val = (input = zero)

\* The least and the greatest of a non-empty set of scalars.
Least(S) == CHOOSE n \in S : \A k \in S : n <= k

Greatest(S) == CHOOSE n \in S : \A k \in S : n >= k

\* The values a collection of coordinates takes on each axis.
AxisX(cs) == {cs[i].x : i \in DOMAIN cs}

AxisY(cs) == {cs[i].y : i \in DOMAIN cs}

AxisZ(cs) == {cs[i].z : i \in DOMAIN cs}

\* C30: get_bounding_rect returns None for an empty collection and, for a
\* collection of coordinates, the box from the least x, y and z to the
\* greatest x, y and z of the collection.
C30_BoundingBox ==
    op = "bounding_rect" =>
        IF input = <<>>
        THEN result = Ok(<<>>)
        ELSE /\ result.tag = "Ok"
             /\ Len(result.val) = 1
             /\ result.val[1].min =
                    CoordZ(Least(AxisX(input)), Least(AxisY(input)), Least(AxisZ(input)))
             /\ result.val[1].max =
                    CoordZ(Greatest(AxisX(input)), Greatest(AxisY(input)),
                           Greatest(AxisZ(input)))

====
